---- MODULE Spec2Model ----
(***************************************************************************)
(* generate_fontcache.py: build a Matplotlib font cache from fontconfig.   *)
(*                                                                         *)
(* A string is a sequence of one-character strings, so that splitting,     *)
(* escaping and comparison are computed character by character as the      *)
(* Python code computes them.                                              *)
(***************************************************************************)
EXTENDS Integers, Sequences, FiniteSets, TLC

VARIABLES
    action,          \* args.action: "print" or "write"
    pc,              \* position of main()
    vendored_db,     \* fonts under mpl-data/fonts/ttf, as fontconfig sees them
    system_db,       \* fonts of the system catalog, as fontconfig sees them
    vendored_fonts,  \* output text of fc-query, or None
    system_fonts,    \* output text of fc-list, or None
    entries,         \* value returned by generate_entries(), or None
    raised,          \* exception that ended the run, or "none"
    ttflist,         \* fm.fontManager.ttflist
    cache,           \* content of the file fm._fmcache
    stdout           \* what print() has written

vars == <<action, pc, vendored_db, system_db, vendored_fonts, system_fonts,
          entries, raised, ttflist, cache, stdout>>

\* an optional value: None, or Some(x)
None == <<>>

Some(x) == <<x>>

(***************************************************************************)
(* Bounds of the model.                                                    *)
(***************************************************************************)
\* total number of font faces the two queries report
MaxFaces == 2
\* raw weights range over -RawMargin .. 215 + RawMargin
RawMargin == 5
\* longest path and longest family name of the escaping inputs
MaxValueLen == 2

(***************************************************************************)
(* Characters and strings.                                                 *)
(***************************************************************************)
Digits == <<"0", "1", "2", "3", "4", "5", "6", "7", "8", "9">>

\* ord(): the code point Python compares characters by
ord(c) ==
    CASE c = "\n" -> 10
      [] c = " "  -> 32
      [] c = "+"  -> 43
      [] c = ","  -> 44
      [] c = "-"  -> 45
      [] c = "/"  -> 47
      [] c = "0"  -> 48
      [] c = "1"  -> 49
      [] c = "2"  -> 50
      [] c = "3"  -> 51
      [] c = "4"  -> 52
      [] c = "5"  -> 53
      [] c = "6"  -> 54
      [] c = "7"  -> 55
      [] c = "8"  -> 56
      [] c = "9"  -> 57
      [] c = "A"  -> 65
      [] c = "B"  -> 66
      [] c = "C"  -> 67
      [] c = "["  -> 91
      [] c = "\\" -> 92
      [] c = "]"  -> 93
      [] c = "_"  -> 95
      [] c = "a"  -> 97
      [] c = "b"  -> 98
      [] c = "c"  -> 99

\* str < str of Python: lexicographic on code points, a proper prefix first
RECURSIVE StrLessFrom(_, _, _)
StrLessFrom(s, t, i) ==
    IF i > Len(t) THEN FALSE
    ELSE IF i > Len(s) THEN TRUE
    ELSE IF ord(s[i]) < ord(t[i]) THEN TRUE
    ELSE IF ord(s[i]) > ord(t[i]) THEN FALSE
    ELSE StrLessFrom(s, t, i + 1)

StrLess(s, t) == StrLessFrom(s, t, 1)

\* sep.join(parts)
RECURSIVE JoinFrom(_, _, _, _)
JoinFrom(sep, parts, i, acc) ==
    IF i > Len(parts) THEN acc
    ELSE JoinFrom(sep, parts, i + 1,
                  IF i = 1 THEN parts[i] ELSE acc \o sep \o parts[i])

Join(sep, parts) == JoinFrom(sep, parts, 1, <<>>)

(***************************************************************************)
(* The font-matching service, as the format string of the code asks it to  *)
(* print: "%{file|escape(\\ )} %{family|escape(\\ )} %{slant} %{weight}    *)
(* %{width}\n".                                                            *)
(***************************************************************************)
\* escape(arg): the first character of arg is put before every character
\* of the value that occurs in arg
RECURSIVE EscapeFrom(_, _, _, _)
EscapeFrom(arg, s, i, acc) ==
    IF i > Len(s) THEN acc
    ELSE EscapeFrom(arg, s, i + 1,
                    IF \E k \in 1..Len(arg) : arg[k] = s[i]
                    THEN acc \o <<arg[1], s[i]>>
                    ELSE Append(acc, s[i]))

Escape(arg, s) == EscapeFrom(arg, s, 1, <<>>)

\* one output record of a face: the five fields, space separated, the
\* values of the family list comma separated, newline terminated
FcFormatWith(arg, face) ==
    Escape(arg, face.file) \o <<" ">>
    \o Join(<<",">>, [i \in 1..Len(face.family) |-> Escape(arg, face.family[i])])
    \o <<" ">> \o face.slant \o <<" ">> \o face.weight \o <<" ">> \o face.width
    \o <<"\n">>

\* the characters escape(\\ ) names: the backslash and the space
fc_format == <<"\\", " ">>

FcFormat(face) == FcFormatWith(fc_format, face)

\* the output text of one invocation over the faces of db
RECURSIVE FcOutputFrom(_, _, _)
FcOutputFrom(db, i, acc) ==
    IF i > Len(db) THEN acc
    ELSE FcOutputFrom(db, i + 1, acc \o FcFormat(db[i]))

FcOutput(db) == FcOutputFrom(db, 1, <<>>)

\* %{weight} of an integer weight: its decimal digits
RECURSIVE NatToStr(_)
NatToStr(n) ==
    IF n < 10 THEN <<Digits[n + 1]>>
    ELSE Append(NatToStr(n \div 10), Digits[(n % 10) + 1])

IntToStr(n) == IF n < 0 THEN <<"-">> \o NatToStr(0 - n) ELSE NatToStr(n)

(***************************************************************************)
(* generate_entries(): the text operations.                                *)
(***************************************************************************)
\* str.splitlines(): the lines of the text, without their newline ("\n" is
\* the only line boundary among the characters of ord)
RECURSIVE SplitLinesFrom(_, _, _, _)
SplitLinesFrom(text, i, cur, acc) ==
    IF i > Len(text) THEN (IF cur = <<>> THEN acc ELSE Append(acc, cur))
    ELSE IF text[i] = "\n" THEN SplitLinesFrom(text, i + 1, <<>>, Append(acc, cur))
    ELSE SplitLinesFrom(text, i + 1, Append(cur, text[i]), acc)

splitlines(text) == SplitLinesFrom(text, 1, <<>>, <<>>)

\* re.split(r"(?<!\\)" + delim, s): split at every delim that no backslash
\* precedes in s
RECURSIVE ReSplitFrom(_, _, _, _, _)
ReSplitFrom(delim, s, i, cur, acc) ==
    IF i > Len(s) THEN Append(acc, cur)
    ELSE IF s[i] = delim /\ ~(i > 1 /\ s[i - 1] = "\\")
         THEN ReSplitFrom(delim, s, i + 1, <<>>, Append(acc, cur))
         ELSE ReSplitFrom(delim, s, i + 1, Append(cur, s[i]), acc)

re_split(delim, s) == ReSplitFrom(delim, s, 1, <<>>, <<>>)

\* s.replace(r"\ ", " "): left to right, occurrences do not overlap
RECURSIVE ReplaceFrom(_, _, _)
ReplaceFrom(s, i, acc) ==
    IF i > Len(s) THEN acc
    ELSE IF s[i] = "\\" /\ i < Len(s) /\ s[i + 1] = " "
         THEN ReplaceFrom(s, i + 2, Append(acc, " "))
         ELSE ReplaceFrom(s, i + 1, Append(acc, s[i]))

replace(s) == ReplaceFrom(s, 1, <<>>)

IsDigit(c) == \E k \in 1..Len(Digits) : Digits[k] = c

IsSpace(c) == c = " " \/ c = "\n"

RECURSIVE LStrip(_)
LStrip(s) == IF s # <<>> /\ IsSpace(s[1]) THEN LStrip(Tail(s)) ELSE s

RECURSIVE RStrip(_)
RStrip(s) ==
    IF s # <<>> /\ IsSpace(s[Len(s)]) THEN RStrip(SubSeq(s, 1, Len(s) - 1)) ELSE s

RECURSIVE DigitsValue(_, _, _)
DigitsValue(s, i, acc) ==
    IF i > Len(s) THEN acc
    ELSE IF s[i] = "_" THEN DigitsValue(s, i + 1, acc)
    ELSE DigitsValue(s, i + 1, 10 * acc + (ord(s[i]) - 48))

\* int(s): surrounding whitespace, an optional sign, digits with single
\* underscores between them; anything else raises ValueError
int(s) ==
    LET t    == RStrip(LStrip(s))
        sign == t # <<>> /\ (t[1] = "+" \/ t[1] = "-")
        body == IF sign THEN Tail(t) ELSE t
        ok   == /\ body # <<>>
                /\ \A i \in 1..Len(body) :
                      \/ IsDigit(body[i])
                      \/ /\ body[i] = "_"
                         /\ 1 < i /\ i < Len(body)
                         /\ IsDigit(body[i - 1]) /\ IsDigit(body[i + 1])
        mag  == DigitsValue(body, 1, 0)
    IN IF ~ok THEN [raised |-> "ValueError", value |-> 0]
       ELSE [raised |-> "none",
             value  |-> IF sign /\ t[1] = "-" THEN 0 - mag ELSE mag]

(***************************************************************************)
(* generate_entries(): the style tables and the weight scale.              *)
(***************************************************************************)
KeyError == "KeyError"

\* a slant table that falls back to "normal" for a code it has no key for
style_with_default(fc_slant) ==
    CASE fc_slant = <<"1", "0", "0">> -> "italic"
      [] fc_slant = <<"1", "1", "0">> -> "oblique"
      [] OTHER                        -> "normal"

\* {"0": "normal", "100": "italic", "110": "oblique"}[fc_slant]
style_of(fc_slant) ==
    CASE fc_slant = <<"0">>           -> "normal"
      [] fc_slant = <<"1", "0", "0">> -> "italic"
      [] fc_slant = <<"1", "1", "0">> -> "oblique"
      [] OTHER                        -> KeyError

\* {"50": "ultra-condensed", ..., "200": "ultra-expanded"}[fc_width]
stretch_of(fc_width) ==
    CASE fc_width = <<"5", "0">>      -> "ultra-condensed"
      [] fc_width = <<"6", "3">>      -> "extra-condensed"
      [] fc_width = <<"7", "5">>      -> "condensed"
      [] fc_width = <<"8", "7">>      -> "semi-condensed"
      [] fc_width = <<"1", "0", "0">> -> "normal"
      [] fc_width = <<"1", "1", "3">> -> "semi-expanded"
      [] fc_width = <<"1", "2", "5">> -> "expanded"
      [] fc_width = <<"1", "5", "0">> -> "extra-expanded"
      [] fc_width = <<"2", "0", "0">> -> "ultra-expanded"
      [] OTHER                        -> KeyError

fc_weights == <<0, 40, 50, 55, 75, 80, 100, 180, 200, 205, 210, 215>>

css_weights == <<100, 200, 300, 350, 380, 400, 500, 600, 700, 800, 900, 1000>>

\* np.interp(x, xp, fp) as the fraction num/den: fp[1] left of xp, fp[n]
\* right of it, fp[j] at xp[j], and slope * (x - xp[j]) + fp[j] between
\* xp[j] and xp[j+1].  Every slope of the two tables is a multiple of 1/4,
\* so the floating-point value is this fraction exactly.
interp(x, xp, fp) ==
    LET n == Len(xp) IN
    IF x > xp[n] THEN [num |-> fp[n], den |-> 1]
    ELSE IF x < xp[1] THEN [num |-> fp[1], den |-> 1]
    ELSE LET j == CHOOSE k \in 1..n : xp[k] <= x /\ (k = n \/ x < xp[k + 1]) IN
         IF j = n \/ xp[j] = x THEN [num |-> fp[j], den |-> 1]
         ELSE [num |-> (fp[j + 1] - fp[j]) * (x - xp[j])
                       + fp[j] * (xp[j + 1] - xp[j]),
               den |-> xp[j + 1] - xp[j]]

\* int(v) of the fraction v: the .5 of the code left out
int_without_half(v) ==
    IF v.num >= 0 THEN v.num \div v.den ELSE 0 - ((0 - v.num) \div v.den)

\* int(v + .5) of the fraction v: the sum truncated towards zero
int_plus_half(v) ==
    LET n == 2 * v.num + v.den
        d == 2 * v.den
    IN IF n >= 0 THEN n \div d ELSE 0 - ((0 - n) \div d)

\* weight = int(np.interp(fc_weight, fc_weights, css_weights) + .5)
weight_of(fc_weight) == int_plus_half(interp(fc_weight, fc_weights, css_weights))

\* the family field taken as one name, the list not split
families_unsplit(fc_family) == <<replace(fc_family)>>

\* families = re.split(r"(?<!\\),", fc_family.replace(r"\ ", " "))
families_of(fc_family) == re_split(",", replace(fc_family))

FontEntry(file, family, style, variant, weight, stretch, size) ==
    [fname |-> file, name |-> family, style |-> style, variant |-> variant,
     weight |-> weight, stretch |-> stretch, size |-> size]

\* the body of the loop for one line: the entries it appends, or the
\* exception it raises (the statements in the order of the code)
entries_of_line(line) ==
    LET fields == re_split(" ", line) IN
    IF Len(fields) # 5 THEN [raised |-> "ValueError", entries |-> <<>>]
    ELSE
    LET fc_file   == fields[1]
        fc_family == fields[2]
        fc_slant  == fields[3]
        fc_weight == fields[4]
        fc_width  == fields[5]
        file      == replace(fc_file)
        families  == families_of(fc_family)
        style     == style_of(fc_slant)
        raw       == int(fc_weight)
        stretch   == stretch_of(fc_width)
    IN IF style = KeyError THEN [raised |-> "KeyError", entries |-> <<>>]
       ELSE IF raw.raised # "none" THEN [raised |-> "ValueError", entries |-> <<>>]
       ELSE IF stretch = KeyError THEN [raised |-> "KeyError", entries |-> <<>>]
       ELSE [raised  |-> "none",
             entries |-> [i \in 1..Len(families) |->
                            FontEntry(file, families[i], style, "normal",
                                      weight_of(raw.value), stretch, "scalable")]]

\* entries.sort(key=lambda entry: entry.fname): a stable sort, an entry goes
\* before the first entry whose fname is greater than its own
RECURSIVE InsertByFname(_, _, _)
InsertByFname(sorted, e, i) ==
    IF i > Len(sorted) THEN Append(sorted, e)
    ELSE IF StrLess(e.fname, sorted[i].fname)
         THEN SubSeq(sorted, 1, i - 1) \o <<e>> \o SubSeq(sorted, i, Len(sorted))
         ELSE InsertByFname(sorted, e, i + 1)

RECURSIVE SortFrom(_, _, _)
SortFrom(es, i, acc) ==
    IF i > Len(es) THEN acc
    ELSE SortFrom(es, i + 1, InsertByFname(acc, es[i], 1))

\* the entries left in the order of the lines
sort_skipped(es) == es

sort(es) == SortFrom(es, 1, <<>>)

\* the loop over the lines, ended by the first exception
RECURSIVE LoopFrom(_, _, _)
LoopFrom(lines, i, acc) ==
    IF i > Len(lines) THEN [raised |-> "none", entries |-> acc]
    ELSE LET r == entries_of_line(lines[i]) IN
         IF r.raised # "none" THEN [raised |-> r.raised, entries |-> <<>>]
         ELSE LoopFrom(lines, i + 1, acc \o r.entries)

\* generate_entries() from the two output texts: the returned list, or the
\* exception raised
generate_entries(vendored, system) ==
    LET r == LoopFrom(splitlines(vendored) \o splitlines(system), 1, <<>>) IN
    IF r.raised # "none" THEN r
    ELSE [raised |-> "none", entries |-> sort(r.entries)]

(***************************************************************************)
(* The fonts the two queries can report.                                   *)
(***************************************************************************)
Face(file, family, slant, weight, width) ==
    [file |-> file, family |-> family, slant |-> slant, weight |-> weight,
     width |-> width]

\* faces every field of which the code maps
GoodFaces ==
    { Face(f, n, <<"0">>, <<"8", "0">>, <<"1", "0", "0">>) :
        f \in {<<"/", "a">>, <<"/", "b", " ", "c">>},
        n \in {<<<<"A">>>>, <<<<"A">>, <<"A", " ", "B">>>>} }
    \cup { Face(<<"/", "a">>, <<<<"B">>>>, <<"1", "0", "0">>, <<"6", "0">>, <<"5", "0">>),
           Face(<<"/", "c">>, <<<<"C">>>>, <<"1", "1", "0">>, <<"2", "1", "5">>,
                <<"2", "0", "0">>) }

\* a variable font: %{weight} prints the range of its weights
VariableWeightFaces ==
    { Face(<<"/", "a">>, <<<<"A">>>>, <<"0">>,
           <<"[", "1", "0", "0", " ", "2", "0", "0", "]">>, <<"1", "0", "0">>) }

\* a slant the table of the code has no key for
UnknownSlantFaces ==
    { Face(<<"/", "a">>, <<<<"A">>>>, <<"5", "5">>, <<"8", "0">>, <<"1", "0", "0">>) }

\* a width the table of the code has no key for
UnknownWidthFaces ==
    { Face(<<"/", "a">>, <<<<"A">>>>, <<"0">>, <<"8", "0">>, <<"9", "9">>) }

\* an empty file, an empty family, an empty name in the family list
EmptyValueFaces ==
    { Face(<<>>, <<<<"A">>>>, <<"0">>, <<"8", "0">>, <<"1", "0", "0">>),
      Face(<<"/", "a">>, <<<<>>>>, <<"0">>, <<"8", "0">>, <<"1", "0", "0">>),
      Face(<<"/", "a">>, <<<<"A">>, <<>>, <<"B">>>>, <<"0">>, <<"8", "0">>,
           <<"1", "0", "0">>) }

\* a path that ends in a backslash
BackslashFaces ==
    { Face(<<"/", "a", "\\">>, <<<<"A">>>>, <<"0">>, <<"8", "0">>, <<"1", "0", "0">>) }

Faces ==
    GoodFaces \cup VariableWeightFaces \cup UnknownSlantFaces
    \cup UnknownWidthFaces \cup EmptyValueFaces \cup BackslashFaces

SeqsUpTo(S, n) == UNION { [1..k -> S] : k \in 0..n }

\* the cache file and the entry list of the font manager before the run
OldTtflist ==
    << FontEntry(<<"/", "o">>, <<"C">>, "normal", "normal", 400, "normal",
                 "scalable") >>

OldCache == [complete |-> TRUE, ttflist |-> OldTtflist]

(***************************************************************************)
(* main().                                                                 *)
(***************************************************************************)
Start ==
    /\ action \in {"print", "write"}
    /\ pc = "start"
    /\ vendored_fonts = None
    /\ system_fonts = None
    /\ entries = None
    /\ raised = "none"
    /\ ttflist = OldTtflist
    /\ cache = OldCache
    /\ stdout = None

Init ==
    /\ Start
    /\ vendored_db \in SeqsUpTo(Faces, MaxFaces) \ {<<>>}
    /\ system_db \in SeqsUpTo(Faces, MaxFaces - Len(vendored_db))

\* subprocess.check_output(["fc-query", fc_format] + vendored_fonts)
QueryVendored ==
    /\ pc = "start"
    /\ vendored_fonts' = Some(FcOutput(vendored_db))
    /\ pc' = "vendored"
    /\ UNCHANGED <<action, vendored_db, system_db, system_fonts, entries, raised,
                   ttflist, cache, stdout>>

\* fc-query cannot run or exits non-zero: check_output raises
QueryVendoredFails ==
    /\ pc = "start"
    /\ raised' = "CalledProcessError"
    /\ pc' = "failed"
    /\ UNCHANGED <<action, vendored_db, system_db, vendored_fonts, system_fonts,
                   entries, ttflist, cache, stdout>>

\* subprocess.check_output(["fc-list", fc_format])
QuerySystem ==
    /\ pc = "vendored"
    /\ system_fonts' = Some(FcOutput(system_db))
    /\ pc' = "queried"
    /\ UNCHANGED <<action, vendored_db, system_db, vendored_fonts, entries, raised,
                   ttflist, cache, stdout>>

\* fc-list cannot run or exits non-zero: check_output raises
QuerySystemFails ==
    /\ pc = "vendored"
    /\ raised' = "CalledProcessError"
    /\ pc' = "failed"
    /\ UNCHANGED <<action, vendored_db, system_db, vendored_fonts, system_fonts,
                   entries, ttflist, cache, stdout>>

\* an exception of the loop swallowed: main() goes on with no entries
NormalizeSwallowing ==
    /\ pc = "queried"
    /\ LET r == generate_entries(vendored_fonts[1], system_fonts[1]) IN
       entries' = Some(r.entries)
    /\ pc' = "generated"
    /\ UNCHANGED <<action, vendored_db, system_db, vendored_fonts, system_fonts,
                   raised, ttflist, cache, stdout>>

\* the loop and the sort of generate_entries(), and its return to main();
\* an exception of the loop leaves main()
Normalize ==
    /\ pc = "queried"
    /\ LET r == generate_entries(vendored_fonts[1], system_fonts[1]) IN
       IF r.raised # "none"
       THEN /\ raised' = r.raised
            /\ pc' = "failed"
            /\ UNCHANGED entries
       ELSE /\ entries' = Some(r.entries)
            /\ pc' = "generated"
            /\ UNCHANGED raised
    /\ UNCHANGED <<action, vendored_db, system_db, vendored_fonts, system_fonts,
                   ttflist, cache, stdout>>

\* action "print": for entry in entries: print(entry)
PrintEntries ==
    /\ pc = "generated"
    /\ action = "print"
    /\ stdout' = Some(entries[1])
    /\ pc' = "done"
    /\ UNCHANGED <<action, vendored_db, system_db, vendored_fonts, system_fonts,
                   entries, raised, ttflist, cache>>

\* action "write": fm.fontManager.ttflist = entries; open(fm._fmcache, "w")
\* truncates the file
OpenCache ==
    /\ pc = "generated"
    /\ action = "write"
    /\ ttflist' = entries[1]
    /\ cache' = [complete |-> FALSE, ttflist |-> <<>>]
    /\ pc' = "dumping"
    /\ UNCHANGED <<action, vendored_db, system_db, vendored_fonts, system_fonts,
                   entries, raised, stdout>>

\* json.dump writes the document chunk by chunk: the next entry
DumpChunk ==
    /\ pc = "dumping"
    /\ Len(cache.ttflist) < Len(ttflist)
    /\ cache' = [cache EXCEPT !.ttflist = Append(@, ttflist[Len(@) + 1])]
    /\ UNCHANGED <<action, pc, vendored_db, system_db, vendored_fonts,
                   system_fonts, entries, raised, ttflist, stdout>>

\* the last chunk, the end of the with block and the final print
DumpEnd ==
    /\ pc = "dumping"
    /\ Len(cache.ttflist) = Len(ttflist)
    /\ cache' = [cache EXCEPT !.complete = TRUE]
    /\ stdout' = Some(<<"Font cache written">>)
    /\ pc' = "done"
    /\ UNCHANGED <<action, vendored_db, system_db, vendored_fonts, system_fonts,
                   entries, raised, ttflist>>

\* json.dump raises, or the process is interrupted, between two chunks
DumpFails ==
    /\ pc = "dumping"
    /\ raised' = "Interrupted"
    /\ pc' = "failed"
    /\ UNCHANGED <<action, vendored_db, system_db, vendored_fonts, system_fonts,
                   entries, ttflist, cache, stdout>>

Next ==
    \/ QueryVendored
    \/ QueryVendoredFails
    \/ QuerySystem
    \/ QuerySystemFails
    \/ Normalize
    \/ PrintEntries
    \/ OpenCache
    \/ DumpChunk
    \/ DumpEnd
    \/ DumpFails

Spec == Init /\ [][Next]_vars

(***************************************************************************)
(* The weight scale alone: one system face for every raw weight of the     *)
(* range, beside one bundled face.                                         *)
(***************************************************************************)
RawWeights == (0 - RawMargin)..(215 + RawMargin)

BundledFace ==
    Face(<<"/", "c">>, <<<<"C">>>>, <<"1", "1", "0">>, <<"2", "1", "5">>,
         <<"2", "0", "0">>)

WeightFace(w) ==
    Face(<<"/", "a">>, <<<<"A">>>>, <<"0">>, IntToStr(w), <<"1", "0", "0">>)

InitWeight ==
    /\ Start
    /\ vendored_db = <<BundledFace>>
    /\ \E w \in RawWeights : system_db = <<WeightFace(w)>>

SpecWeight == InitWeight /\ [][Next]_vars

(***************************************************************************)
(* The escaping alone: one bundled face whose path and family names range  *)
(* over an alphabet with the space, the comma and the backslash, printed   *)
(* by fc-query in the format of the code.                                  *)
(***************************************************************************)
EscapeAlphabet == {"A", " ", ",", "\\"}

\* the non-empty values of at most MaxValueLen characters
EscapeValues == SeqsUpTo(EscapeAlphabet, MaxValueLen) \ {<<>>}

InitEscape ==
    /\ Start
    /\ system_db = <<>>
    /\ \E path \in EscapeValues, first \in EscapeValues,
          rest \in SeqsUpTo(EscapeValues, 1) :
          vendored_db = << Face(path, <<first>> \o rest, <<"0">>, <<"8", "0">>,
                                <<"1", "0", "0">>) >>

SpecEscape == InitEscape /\ [][Next]_vars

(***************************************************************************)
(* Properties.                                                             *)
(***************************************************************************)
\* the faces of both queries, in the order the loop reads their records
AllFaces == vendored_db \o system_db

\* the single line a face is printed as
LineOf(face) == splitlines(FcFormat(face))[1]

Range(seq) == { seq[i] : i \in 1..Len(seq) }

\* the loop of generate_entries() is over: it returned or it raised
LoopOver ==
    \/ pc \in {"generated", "dumping", "done"}
    \/ pc = "failed" /\ raised # "CalledProcessError"

\* the slant and width codes the tables are specified for
KnownSlants == { <<"0">>, <<"1", "0", "0">>, <<"1", "1", "0">> }

KnownWidths ==
    { <<"5", "0">>, <<"6", "3">>, <<"7", "5">>, <<"8", "7">>, <<"1", "0", "0">>,
      <<"1", "1", "3">>, <<"1", "2", "5">>, <<"1", "5", "0">>, <<"2", "0", "0">> }

UnmappedCode(face) == face.slant \notin KnownSlants \/ face.width \notin KnownWidths

\* C1: the entry sequence generate_entries returns is in non-decreasing
\* lexicographic order of the entries' unescaped file path, whatever the
\* order of the records and whichever query reported them.
C1_SortedByFile ==
    entries # None =>
        \A i, j \in 1..Len(entries[1]) :
            i < j => ~StrLess(entries[1][j].fname, entries[1][i].fname)

\* C1 case: the bundled query reported a path greater than the one the
\* system query reported, and the returned sequence has them in order.
C1_Witness ==
    /\ entries # None
    /\ Range(AllFaces) \subseteq GoodFaces
    /\ Len(vendored_db) = 1 /\ Len(system_db) = 1
    /\ StrLess(system_db[1].file, vendored_db[1].file)
    /\ entries[1][1].fname = system_db[1].file
    /\ entries[1][Len(entries[1])].fname = vendored_db[1].file

\* the permutations of a sequence
Reorderings(seq) ==
    { [i \in 1..Len(seq) |-> seq[f[i]]] :
        f \in { g \in [1..Len(seq) -> 1..Len(seq)] :
                  \A a, b \in 1..Len(seq) : a # b => g[a] # g[b] } }

\* C2: the records reordered, or moved between the two queries, give the
\* same entries in the same order, also when several records share one
\* file path.
C2_OrderIndependent ==
    (entries # None /\ Range(AllFaces) \subseteq GoodFaces) =>
        \A p \in Reorderings(AllFaces) : \A k \in 0..Len(p) :
            LET r == generate_entries(FcOutput(SubSeq(p, 1, k)),
                                      FcOutput(SubSeq(p, k + 1, Len(p))))
            IN r.raised = "none" /\ r.entries = entries[1]

\* the faces of a sequence that are not variable-weight faces
RECURSIVE FixedWeightFrom(_, _, _)
FixedWeightFrom(faces, i, acc) ==
    IF i > Len(faces) THEN acc
    ELSE FixedWeightFrom(faces, i + 1,
                         IF faces[i] \in VariableWeightFaces THEN acc
                         ELSE Append(acc, faces[i]))

\* C3: a record whose weight field is a bracketed list is discarded without
\* a fatal error: the pass completes and returns the entries of the other
\* records, and no entry of that record.
C3_VariableWeightSkipped ==
    ( /\ LoopOver
      /\ \E i \in 1..Len(AllFaces) : AllFaces[i] \in VariableWeightFaces
      /\ \A i \in 1..Len(AllFaces) :
            AllFaces[i] \in VariableWeightFaces \cup GoodFaces )
    => /\ entries # None
       /\ entries[1] =
            generate_entries(FcOutput(FixedWeightFrom(AllFaces, 1, <<>>)), <<>>).entries

\* the correspondence points (raw, css) of the weight scale
CorrespondencePoints ==
    << <<0, 100>>, <<40, 200>>, <<50, 300>>, <<55, 350>>, <<75, 380>>, <<80, 400>>,
       <<100, 500>>, <<180, 600>>, <<200, 700>>, <<205, 800>>, <<210, 900>>,
       <<215, 1000>> >>

\* css is the piecewise-linear interpolation at raw through the points,
\* clamped outside them, rounded to the nearest integer, a tie upwards:
\* css <= v + 1/2 < css + 1 for the interpolated v, over the denominator dx
RoundedInterpolation(raw, css) ==
    LET P == CorrespondencePoints
        n == Len(P)
    IN IF raw < P[1][1] THEN css = P[1][2]
       ELSE IF raw > P[n][1] THEN css = P[n][2]
       ELSE \E k \in 1..(n - 1) :
              LET dx == P[k + 1][1] - P[k][1]
                  dy == P[k + 1][2] - P[k][2]
                  v  == P[k][2] * dx + (raw - P[k][1]) * dy
              IN /\ P[k][1] <= raw /\ raw <= P[k + 1][1]
                 /\ 2 * css * dx <= 2 * v + dx
                 /\ 2 * v + dx < 2 * css * dx + 2 * dx

\* the raw weight of the system face and the weight of its entry (the
\* entry of the bundled face sorts after it)
RawOfRun == CHOOSE w \in RawWeights : system_db[1] = WeightFace(w)

CssOfRun == entries[1][1].weight

WeightScaleHolds ==
    /\ RoundedInterpolation(RawOfRun, CssOfRun)
    /\ \A k \in 1..Len(CorrespondencePoints) :
          RawOfRun = CorrespondencePoints[k][1]
              => CssOfRun = CorrespondencePoints[k][2]

\* C4 as stated: the emitted weight is the interpolation through the 12
\* points, clamped below 0 and above 215, rounded half up; each point maps
\* exactly, and raw 60 maps to 355.
C4_WeightScaleAsStated ==
    entries # None => /\ WeightScaleHolds
                      /\ RawOfRun = 60 => CssOfRun = 355

\* C4 amended: the same scale, where raw 60 maps to 358, the rounding of
\* 350 + 5/20 * 30 = 357.5.
C4_WeightScale ==
    entries # None => /\ WeightScaleHolds
                      /\ RawOfRun = 60 => CssOfRun = 358

\* C4 case: the run for raw weight 60 has returned its entry.
C4_Witness ==
    /\ entries # None
    /\ system_db[1].weight = <<"6", "0">>
    /\ entries[1][1].fname = <<"/", "a">>
    /\ entries[1][1].weight = 358

RECURSIVE SumOfNames(_, _)
SumOfNames(faces, i) ==
    IF i > Len(faces) THEN 0 ELSE Len(faces[i].family) + SumOfNames(faces, i + 1)

\* C5: a record whose family field holds k names gives exactly k entries,
\* one per name, alike in every field but the family.
C5_OneEntryPerFamily ==
    entries # None =>
        /\ Len(entries[1]) = SumOfNames(AllFaces, 1)
        /\ \A i \in 1..Len(AllFaces) :
              LET face == AllFaces[i]
                  es   == entries_of_line(LineOf(face)).entries
              IN /\ Len(es) = Len(face.family)
                 /\ \A j \in 1..Len(es) :
                       /\ es[j] = [es[1] EXCEPT !.name = face.family[j]]
                       /\ es[j].fname = face.file
                       /\ es[j] \in Range(entries[1])

\* C5 case: a face with two family names went through a pass that returned.
C5_Witness ==
    /\ entries # None
    /\ \E i \in 1..Len(AllFaces) :
          /\ AllFaces[i].family = <<<<"A">>, <<"A", " ", "B">>>>
          /\ \E a, b \in 1..Len(entries[1]) :
                /\ b = a + 1
                /\ entries[1][a].name = <<"A">>
                /\ entries[1][b].name = <<"A", " ", "B">>
                /\ entries[1][a].fname = AllFaces[i].file
                /\ entries[1][b].fname = AllFaces[i].file

\* C6: a record with a slant or a width code outside the tables ends the
\* pass in a fatal error: nothing is returned, printed or written, whatever
\* valid records precede or follow it.
C6_UnknownCodeIsFatal ==
    ( /\ pc \notin {"start", "vendored", "queried"}
      /\ \E i \in 1..Len(AllFaces) : UnmappedCode(AllFaces[i]) )
    => /\ pc = "failed"
       /\ entries = None
       /\ stdout = None
       /\ ttflist = OldTtflist
       /\ cache = OldCache

\* C6 case: a valid record, then one with an unmapped code, and the loop
\* raised KeyError.
C6_Witness ==
    /\ pc = "failed"
    /\ raised = "KeyError"
    /\ Len(AllFaces) = 2
    /\ AllFaces[1] \in GoodFaces
    /\ UnmappedCode(AllFaces[2])

\* a record the pass cannot accept: not five fields, or an unmapped code
Rejected(face) ==
    \/ face \in VariableWeightFaces \cup BackslashFaces
    \/ UnmappedCode(face)

\* C7: the cache file and the entry list of the font manager change only
\* after both queries and the whole pass succeeded, in that order; a failed
\* query or a rejected record leaves both as they were.
C7_WriteOnlyAfterSuccess ==
    /\ (pc = "dumping" \/ cache # OldCache \/ ttflist # OldTtflist) =>
          /\ action = "write"
          /\ vendored_fonts # None /\ system_fonts # None /\ entries # None
          /\ \A i \in 1..Len(AllFaces) : ~Rejected(AllFaces[i])
          /\ LET r == generate_entries(FcOutput(vendored_db), FcOutput(system_db))
             IN r.raised = "none" /\ entries[1] = r.entries /\ ttflist = r.entries
    /\ raised \in {"CalledProcessError", "ValueError", "KeyError"} =>
          pc = "failed" /\ entries = None /\ cache = OldCache /\ ttflist = OldTtflist
    /\ (\E i \in 1..Len(AllFaces) : Rejected(AllFaces[i])) =>
          cache = OldCache /\ ttflist = OldTtflist
    /\ system_fonts # None => vendored_fonts # None
    /\ entries # None => system_fonts # None

\* C7 case: a run in write mode that a rejected record ended.
C7_Witness ==
    /\ action = "write"
    /\ pc = "failed"
    /\ raised \in {"ValueError", "KeyError"}
    /\ \E i \in 1..Len(AllFaces) : Rejected(AllFaces[i])
    /\ cache = OldCache

\* C8: at every moment of a run in write mode the cache file holds the
\* complete previous document or the complete new one.
C8_AtomicReplace ==
    /\ cache.complete
    /\ \/ cache.ttflist = OldTtflist
       \/ entries # None /\ cache.ttflist = entries[1]

\* C9: every entry a completed pass emits has a non-empty file and a
\* non-empty family.
C9_NonEmptyFileAndFamily ==
    entries # None =>
        \A i \in 1..Len(entries[1]) :
            entries[1][i].fname # <<>> /\ entries[1][i].name # <<>>

\* C10: a record printed by the query in the format of the code is split
\* into five fields and gives back the path and every family name exactly,
\* for values that hold spaces, commas and backslashes.
C10_EscapeRoundTrip ==
    LoopOver =>
        /\ raised # "ValueError"
        /\ entries # None
        /\ Len(entries[1]) = Len(vendored_db[1].family)
        /\ \A j \in 1..Len(entries[1]) :
              /\ entries[1][j].fname = vendored_db[1].file
              /\ entries[1][j].name = vendored_db[1].family[j]

====
